---- MODULE Spec2Model ----
(***************************************************************************)
(* Model of the MAX31875 I2C temperature sensor driver (src/MAX31875.py).  *)
(*                                                                         *)
(* The driver keeps two configuration words, configBuf (pending) and      *)
(* config (active).  Python lists are objects: writeConfig binds config to *)
(* the very list configBuf names, so the model carries the variable        *)
(* `aliased` saying whether the two names denote one list object.          *)
(*                                                                         *)
(* Python lists are indexed from 0 and TLA+ sequences from 1: configBuf[0] *)
(* of the source is configBuf[1] here, configBuf[1] is configBuf[2].       *)
(* Temperatures are integers counting 1/32 degree Celsius, so that the     *)
(* truncation of int(abs(t)*16) is visible.                                *)
(*                                                                         *)
(* `synced` is a history variable: the configuration word of the last      *)
(* successful writeConfig or readConfig, that is the word the device held  *)
(* when the driver last exchanged it (the power-on word before that).      *)
(* `sent` is a history variable: the configuration word of the last        *)
(* successful writeConfig, that is the word the device last received (the  *)
(* power-on word before that).                                             *)
(***************************************************************************)
EXTENDS Integers, Sequences, FiniteSets, TLC

VARIABLES configBuf, config, aliased, addr, bus, lastOp, nOps, synced, sent

vars == <<configBuf, config, aliased, addr, bus, lastOp, nOps, synced, sent>>

(* ------------------------------ bounds -------------------------------- *)

\* number of driver calls in one behaviour
MaxOps == 4

(* ------------------------- inputs of the model ------------------------ *)

\* part numbers the object is constructed with (0 selects address 0x48)
PartNumbers == {0}

\* arguments handed to the setters of one-bit and of two-bit fields
OneBitArgs == {-1, 0, 1}
TwoBitArgs == {0, 1, 2, 3, 4}

\* data byte pairs the bus may deliver for a two byte register
RxData == { <<2, 72>>, <<153, 128>> }

\* trailing bytes the bus may deliver besides the right CRC
RxTrail == {255}

\* temperatures handed to the threshold setters, in 1/32 degree
TempArgs == {-816, 17}

(* --------------------------- bit arithmetic --------------------------- *)

RECURSIVE BitAnd(_, _)
BitAnd(x, y) ==
    IF x = 0 \/ y = 0 THEN 0
    ELSE (x % 2) * (y % 2) + 2 * BitAnd(x \div 2, y \div 2)

RECURSIVE BitOr(_, _)
BitOr(x, y) ==
    IF x = 0 THEN y
    ELSE IF y = 0 THEN x
    ELSE (IF x % 2 = 1 \/ y % 2 = 1 THEN 1 ELSE 0) + 2 * BitOr(x \div 2, y \div 2)

RECURSIVE BitXor(_, _)
BitXor(x, y) ==
    IF x = 0 THEN y
    ELSE IF y = 0 THEN x
    ELSE ((x + y) % 2) + 2 * BitXor(x \div 2, y \div 2)

Shl(x, n) == x * (2 ^ n)
Shr(x, n) == x \div (2 ^ n)

Abs(x) == IF x < 0 THEN -x ELSE x

(* ------------------------------ bit masks ----------------------------- *)

_RESOLUTION == 96
_PEC == 8
_TIMEOUT == 16
_CONVERSION_RATE == 6
_FAULT_QUEUE == 24
_COMP_INT == 2
_SHUTDOWN == 1
_FORMAT == 128

(* ------------------------------- CRC-8 -------------------------------- *)

table ==
    << 0, 7, 14, 9, 28, 27, 18, 21, 56, 63, 54, 49, 36, 35, 42, 45,
       112, 119, 126, 121, 108, 107, 98, 101, 72, 79, 70, 65, 84, 83, 90, 93,
       224, 231, 238, 233, 252, 251, 242, 245, 216, 223, 214, 209, 196, 195, 202, 205,
       144, 151, 158, 153, 140, 139, 130, 133, 168, 175, 166, 161, 180, 179, 186, 189,
       199, 192, 201, 206, 219, 220, 213, 210, 255, 248, 241, 246, 227, 228, 237, 234,
       183, 176, 185, 190, 171, 172, 165, 162, 143, 136, 129, 134, 147, 148, 157, 154,
       39, 32, 41, 46, 59, 60, 53, 50, 31, 24, 17, 22, 3, 4, 13, 10,
       87, 80, 89, 94, 75, 76, 69, 66, 111, 104, 97, 102, 115, 116, 125, 122,
       137, 142, 135, 128, 149, 146, 155, 156, 177, 182, 191, 184, 173, 170, 163, 164,
       249, 254, 247, 240, 229, 226, 235, 236, 193, 198, 207, 200, 221, 218, 211, 212,
       105, 110, 103, 96, 117, 114, 123, 124, 81, 86, 95, 88, 77, 74, 67, 68,
       25, 30, 23, 16, 5, 2, 11, 12, 33, 38, 47, 40, 61, 58, 51, 52,
       78, 73, 64, 71, 82, 85, 92, 91, 118, 113, 120, 127, 106, 109, 100, 99,
       62, 57, 48, 55, 34, 37, 44, 43, 6, 1, 8, 15, 26, 29, 20, 19,
       174, 169, 160, 167, 178, 181, 188, 187, 150, 145, 152, 159, 138, 141, 132, 131,
       222, 217, 208, 215, 194, 197, 204, 203, 230, 225, 232, 239, 250, 253, 244, 243 >>

RECURSIVE crcFold(_, _)
crcFold(sum, data) ==
    IF data = <<>> THEN sum
    ELSE crcFold(table[BitXor(sum, Head(data)) + 1], Tail(data))

\* mutant of calcCRC: the accumulator starts at 0xFF
calcCRC_seedFF(data) == crcFold(255, data)

\* lines 353-356
calcCRC(data) == crcFold(0, data)

(* ------------------------------ getters ------------------------------- *)

\* the getters read the active word `config`
format == Shr(config[2], 7)
PEC == BitAnd(Shr(config[2], 3), 1)
resolution == BitAnd(Shr(config[2], 5), 3)
conversionRate == BitAnd(Shr(config[2], 1), 3)
timeOut == BitAnd(Shr(config[2], 4), 1)
\* mutant of faultQueue: the getter masks one bit of the two
faultQueue_oneBit == BitAnd(Shr(config[1], 3), 1)

faultQueue == BitAnd(Shr(config[1], 3), 3)
shutDown == BitAnd(config[1], 1)
compInt == BitAnd(Shr(config[1], 1), 1)

(* --------------------------- records of a call ------------------------ *)

\* the bus transaction of the last call: kind "none", "write" or "read", the
\* register, the number of bytes asked for (reads), the bytes handed to the
\* bus (writes) or delivered by it (reads), whether the bus succeeded, and
\* what read() returned to its caller
None == [some |-> FALSE, data |-> <<>>]
Some(d) == [some |-> TRUE, data |-> d]

NoBus == [kind |-> "none", reg |-> 0, len |-> 0, data |-> <<>>, ok |-> TRUE, ret |-> None]

\* out: "ok", "ValueError" (a setter's raise), "IOError" (raised by the
\* driver on a failed CRC check), "BusError" (raised by the bus collaborator)
Op(name, arg, out, ret) == [name |-> name, arg |-> arg, out |-> out, ret |-> ret]

(* ------------------------------ __init__ ------------------------------ *)

\* mutant of Init: both words start as 0x00 0x00 instead of the power-on word
Init_zeroWord ==
    /\ addr \in {72 + part_number : part_number \in PartNumbers}
    /\ configBuf = <<0, 0>>
    /\ config = <<0, 0>>
    /\ aliased = FALSE
    /\ bus = NoBus
    /\ lastOp = Op("__init__", 0, "ok", <<>>)
    /\ nOps = 0
    /\ synced = <<0, 0>>
    /\ sent = <<0, 0>>

Init ==
    /\ addr \in {72 + part_number : part_number \in PartNumbers}
    /\ configBuf = <<0, 64>>
    /\ config = <<0, 64>>
    /\ aliased = FALSE
    /\ bus = NoBus
    /\ lastOp = Op("__init__", 0, "ok", <<>>)
    /\ nOps = 0
    /\ synced = <<0, 64>>
    /\ sent = <<0, 64>>

(* ------------------------------ setters ------------------------------- *)

\* an in-place store into the list configBuf: the list config sees it when
\* both names denote the same object
StoreBuf(newBuf) ==
    /\ configBuf' = newBuf
    /\ config' = IF aliased THEN newBuf ELSE config
    /\ UNCHANGED <<aliased, addr, synced, sent>>

Raise(name, arg, err) ==
    /\ lastOp' = Op(name, arg, err, <<>>)
    /\ bus' = NoBus
    /\ UNCHANGED <<configBuf, config, aliased, addr, synced, sent>>

Called(name, arg) ==
    /\ lastOp' = Op(name, arg, "ok", <<>>)
    /\ bus' = NoBus

format_setter(fmt) ==
    /\ nOps < MaxOps
    /\ nOps' = nOps + 1
    /\ IF fmt \notin {0, 1}
       THEN Raise("format", fmt, "ValueError")
       ELSE /\ StoreBuf([configBuf EXCEPT ![2] = BitOr(BitAnd(@, 127), Shl(fmt, 7))])
            /\ Called("format", fmt)

\* mutant of PECForce: the setter leaves the active word alone
PECForce_pendingOnly(c, v) == c

\* lines 81-84: enabling PEC also sets the PEC bit of the active word
PECForce(c, v) ==
    IF v # 0 THEN [c EXCEPT ![2] = BitOr(BitAnd(@, 247), Shl(v, 3))] ELSE c

PEC_setter(v) ==
    /\ nOps < MaxOps
    /\ nOps' = nOps + 1
    /\ IF v \notin {0, 1}
       THEN Raise("PEC", v, "ValueError")
       ELSE LET newBuf == [configBuf EXCEPT ![2] = BitOr(BitAnd(@, 247), Shl(v, 3))]
                newCfg == PECForce(IF aliased THEN newBuf ELSE config, v)
            IN  /\ configBuf' = IF aliased THEN newCfg ELSE newBuf
                /\ config' = newCfg
                /\ UNCHANGED <<aliased, addr, synced, sent>>
                /\ Called("PEC", v)

resolution_setter(res) ==
    /\ nOps < MaxOps
    /\ nOps' = nOps + 1
    /\ IF res \notin {0, 1, 2, 3}
       THEN Raise("resolution", res, "ValueError")
       ELSE /\ StoreBuf([configBuf EXCEPT ![2] = BitOr(BitAnd(@, 159), Shl(res, 5))])
            /\ Called("resolution", res)

\* mutant of conversionRateByte: the mask 0xF1 also clears the PEC bit
conversionRateByte_wideMask(b, rate) == BitOr(BitAnd(b, 241), Shl(rate, 1))

\* the new byte 1 of configBuf, line 132
conversionRateByte(b, rate) == BitOr(BitAnd(b, 249), Shl(rate, 1))

conversionRate_setter(rate) ==
    /\ nOps < MaxOps
    /\ nOps' = nOps + 1
    /\ IF rate \notin {0, 1, 2, 3}
       THEN Raise("conversionRate", rate, "ValueError")
       ELSE /\ StoreBuf([configBuf EXCEPT ![2] = conversionRateByte(@, rate)])
            /\ Called("conversionRate", rate)

timeOut_setter(t) ==
    /\ nOps < MaxOps
    /\ nOps' = nOps + 1
    /\ IF t \notin {0, 1}
       THEN Raise("timeOut", t, "ValueError")
       ELSE /\ StoreBuf([configBuf EXCEPT ![2] = BitOr(BitAnd(@, 239), Shl(t, 4))])
            /\ Called("timeOut", t)

\* mutant of faultQueueValid: the bound of the domain is off by one
faultQueueValid_offByOne(fq) == fq \in {0, 1, 2, 3, 4}

\* the domain check of the faultQueue setter, line 179
faultQueueValid(fq) == fq \in {0, 1, 2, 3}

faultQueue_setter(fq) ==
    /\ nOps < MaxOps
    /\ nOps' = nOps + 1
    /\ IF ~faultQueueValid(fq)
       THEN Raise("faultQueue", fq, "ValueError")
       ELSE /\ StoreBuf([configBuf EXCEPT ![1] = BitOr(BitAnd(@, 231), Shl(fq, 3))])
            /\ Called("faultQueue", fq)

\* mutant of shutDown_setter: the bit is stored in byte1 (the one-shot bit)
shutDown_setter_byte1(sd) ==
    /\ nOps < MaxOps
    /\ nOps' = nOps + 1
    /\ IF sd \notin {0, 1}
       THEN Raise("shutDown", sd, "ValueError")
       ELSE /\ StoreBuf([configBuf EXCEPT ![2] = BitOr(BitAnd(@, 254), sd)])
            /\ Called("shutDown", sd)

shutDown_setter(sd) ==
    /\ nOps < MaxOps
    /\ nOps' = nOps + 1
    /\ IF sd \notin {0, 1}
       THEN Raise("shutDown", sd, "ValueError")
       ELSE /\ StoreBuf([configBuf EXCEPT ![1] = BitOr(BitAnd(@, 254), sd)])
            /\ Called("shutDown", sd)

compInt_setter(c) ==
    /\ nOps < MaxOps
    /\ nOps' = nOps + 1
    /\ IF c \notin {0, 1}
       THEN Raise("compInt", c, "ValueError")
       ELSE /\ StoreBuf([configBuf EXCEPT ![1] = BitOr(BitAnd(@, 253), Shl(c, 1))])
            /\ Called("compInt", c)

(* ------------------------- transport: write, read --------------------- *)

\* mutant of write: the CRC is computed over the unshifted address
write_unshiftedAddr(register, data) ==
    IF PEC # 0
    THEN data \o <<calcCRC(<<addr, register>> \o data)>>
    ELSE data

\* the bytes write(register, data) hands to bus.write_i2c_block_data
write(register, data) ==
    IF PEC # 0
    THEN data \o <<calcCRC(<<Shl(addr, 1), register>> \o data)>>
    ELSE data

\* the number of bytes read(register, length) asks the bus for
readLen(length) == IF PEC # 0 THEN length + 1 ELSE length

Front(s) == SubSeq(s, 1, Len(s) - 1)
Last(s) == s[Len(s)]

\* mutant of read: the trailing byte is dropped without being compared
read_unchecked(register, rx) ==
    IF PEC # 0 THEN Some(Front(rx)) ELSE Some(rx)

\* mutant of read: on a CRC match the CRC byte is returned with the data
read_keepsCRC(register, rx) ==
    IF PEC # 0
    THEN IF calcCRC(<<Shl(addr, 1), register, Shl(addr, 1) + 1>> \o Front(rx)) = Last(rx)
         THEN Some(rx)
         ELSE None
    ELSE Some(rx)

\* what read(register, length) returns when the bus delivered rx
read(register, rx) ==
    IF PEC # 0
    THEN IF calcCRC(<<Shl(addr, 1), register, Shl(addr, 1) + 1>> \o Front(rx)) = Last(rx)
         THEN Some(Front(rx))
         ELSE None
    ELSE Some(rx)

\* the byte lists the bus may deliver when asked for n bytes of a register:
\* any data pair, followed (n = 3) by the right CRC or by some other byte
BusRx(register, n) ==
    IF n = 2 THEN RxData
    ELSE UNION { { d \o <<c>> :
                     c \in RxTrail \cup
                       {calcCRC(<<Shl(addr, 1), register, Shl(addr, 1) + 1>> \o d)} } :
                 d \in RxData }

\* the outcomes of a bus read of n bytes: the bus raises, or delivers a list
BusFail == [ok |-> FALSE, data |-> <<>>]
BusReads(register, n) ==
    {BusFail} \cup { [ok |-> TRUE, data |-> rx] : rx \in BusRx(register, n) }

BusWrite(register, frame, ok) ==
    [kind |-> "write", reg |-> register, len |-> Len(frame), data |-> frame,
     ok |-> ok, ret |-> None]

BusRead(register, n, r, ret) ==
    [kind |-> "read", reg |-> register, len |-> n, data |-> r.data,
     ok |-> r.ok, ret |-> ret]

(* ----------------------- readConfig, writeConfig ---------------------- *)

\* mutant of readConfig: the bytes are copied into the list config names
\* (config[:] = buf), which is the list configBuf when a commit bound them
readConfig_inPlace ==
    /\ nOps < MaxOps
    /\ nOps' = nOps + 1
    /\ UNCHANGED <<addr, aliased>>
    /\ \E r \in BusReads(1, readLen(2)) :
        LET buf == IF r.ok THEN read(1, r.data) ELSE None
        IN  /\ bus' = BusRead(1, readLen(2), r, buf)
            /\ IF ~r.ok
               THEN /\ lastOp' = Op("readConfig", 0, "BusError", <<>>)
                    /\ UNCHANGED <<configBuf, config, synced, sent>>
               ELSE IF buf.some
               THEN /\ config' = buf.data
                    /\ configBuf' = IF aliased THEN buf.data ELSE configBuf
                    /\ synced' = buf.data
                    /\ UNCHANGED sent
                    /\ lastOp' = Op("readConfig", 0, "ok", <<>>)
               ELSE /\ lastOp' = Op("readConfig", 0, "IOError", <<>>)
                    /\ UNCHANGED <<configBuf, config, synced, sent>>

readConfig ==
    /\ nOps < MaxOps
    /\ nOps' = nOps + 1
    /\ UNCHANGED addr
    /\ \E r \in BusReads(1, readLen(2)) :
        LET buf == IF r.ok THEN read(1, r.data) ELSE None
        IN  /\ bus' = BusRead(1, readLen(2), r, buf)
            /\ IF ~r.ok
               THEN /\ lastOp' = Op("readConfig", 0, "BusError", <<>>)
                    /\ UNCHANGED <<configBuf, config, aliased, synced, sent>>
               ELSE IF buf.some
               THEN /\ config' = buf.data
                    /\ aliased' = FALSE
                    /\ synced' = buf.data
                    /\ UNCHANGED sent
                    /\ UNCHANGED configBuf
                    /\ lastOp' = Op("readConfig", 0, "ok", <<>>)
               ELSE /\ lastOp' = Op("readConfig", 0, "IOError", <<>>)
                    /\ UNCHANGED <<configBuf, config, aliased, synced, sent>>

\* mutant of writeConfig: the pending word is sent but config is not updated
writeConfig_noUpdate ==
    /\ nOps < MaxOps
    /\ nOps' = nOps + 1
    /\ UNCHANGED addr
    /\ \E ok \in BOOLEAN :
        /\ bus' = BusWrite(1, write(1, configBuf), ok)
        /\ lastOp' = Op("writeConfig", 0, IF ok THEN "ok" ELSE "BusError", <<>>)
        /\ synced' = IF ok THEN configBuf ELSE synced
        /\ sent' = IF ok THEN configBuf ELSE sent
        /\ UNCHANGED <<configBuf, config, aliased>>

writeConfig ==
    /\ nOps < MaxOps
    /\ nOps' = nOps + 1
    /\ UNCHANGED addr
    /\ \E ok \in BOOLEAN :
        /\ bus' = BusWrite(1, write(1, configBuf), ok)
        /\ IF ~ok
           THEN /\ lastOp' = Op("writeConfig", 0, "BusError", <<>>)
                /\ UNCHANGED <<configBuf, config, aliased, synced, sent>>
           ELSE /\ config' = configBuf
                /\ aliased' = TRUE
                /\ synced' = configBuf
                /\ sent' = configBuf
                /\ UNCHANGED configBuf
                /\ lastOp' = Op("writeConfig", 0, "ok", <<>>)

(* --------------------------- temperature codec ------------------------ *)

\* mutant of tempToByte: the sixteenths are rounded, not truncated
tempToByte_rounds(t) ==
    LET p == IF format # 0 THEN 3 ELSE 4
        d == (Abs(t) * 16 + 16) \div 32
        u == BitAnd(Shr(d, 8 - p), 127)
        l == BitAnd(Shl(d, p), 255)
    IN  <<IF t < 0 THEN BitOr(u, 128) ELSE u, l>>

\* temperatures are integers counting 1/32 degree; int(abs(t) * 16) is
\* therefore Abs(t) \div 2, and m * 0.0625 is 2 * m
tempToByte(t) ==
    LET p == IF format # 0 THEN 3 ELSE 4
        d == (Abs(t) * 16) \div 32
        u == BitAnd(Shr(d, 8 - p), 127)
        l == BitAnd(Shl(d, p), 255)
    IN  <<IF t < 0 THEN BitOr(u, 128) ELSE u, l>>

\* mutant of byteToTemp: the sign bit is ignored
byteToTemp_noSign(u, l) ==
    LET p == IF format # 0 THEN 3 ELSE 4
    IN  (Shl(BitAnd(u, 127), 8 - p) + Shr(l, p)) * 2

byteToTemp(u, l) ==
    LET p == IF format # 0 THEN 3 ELSE 4
        t == (Shl(BitAnd(u, 127), 8 - p) + Shr(l, p)) * 2
    IN  IF BitAnd(u, 128) # 0 THEN -t ELSE t

(* ------------------- temperature and threshold registers -------------- *)

\* the three getters share their shape: read(register, 2), then byteToTemp
TempRead(name, register) ==
    /\ nOps < MaxOps
    /\ nOps' = nOps + 1
    /\ UNCHANGED <<configBuf, config, aliased, addr, synced, sent>>
    /\ \E r \in BusReads(register, readLen(2)) :
        LET t == IF r.ok THEN read(register, r.data) ELSE None
        IN  /\ bus' = BusRead(register, readLen(2), r, t)
            /\ lastOp' =
                 IF ~r.ok THEN Op(name, 0, "BusError", <<>>)
                 ELSE IF t.some
                 THEN Op(name, 0, "ok", <<byteToTemp(t.data[1], t.data[2])>>)
                 ELSE Op(name, 0, "IOError", <<>>)

\* mutant of TempWrite: the encoded threshold is kept in configBuf
TempWrite_buffered(name, register, t) ==
    /\ nOps < MaxOps
    /\ nOps' = nOps + 1
    /\ configBuf' = tempToByte(t)
    /\ UNCHANGED <<config, aliased, addr, synced, sent>>
    /\ \E ok \in BOOLEAN :
        /\ bus' = BusWrite(register, write(register, tempToByte(t)), ok)
        /\ lastOp' = Op(name, t, IF ok THEN "ok" ELSE "BusError", <<>>)

\* the two setters share their shape: tempToByte, then write(register, [u,l])
TempWrite(name, register, t) ==
    /\ nOps < MaxOps
    /\ nOps' = nOps + 1
    /\ UNCHANGED <<configBuf, config, aliased, addr, synced, sent>>
    /\ \E ok \in BOOLEAN :
        /\ bus' = BusWrite(register, write(register, tempToByte(t)), ok)
        /\ lastOp' = Op(name, t, IF ok THEN "ok" ELSE "BusError", <<>>)

T_hyst_getter == TempRead("T_hyst.get", 2)
T_hyst_setter(t) == TempWrite("T_hyst.set", 2, t)
T_os_getter == TempRead("T_os.get", 3)
T_os_setter(t) == TempWrite("T_os.set", 3, t)
getTemperature == TempRead("getTemperature", 0)

(* --------------------------- the specification ------------------------ *)

Next ==
    \/ \E fmt \in OneBitArgs : format_setter(fmt)
    \/ \E v \in OneBitArgs : PEC_setter(v)
    \/ \E res \in TwoBitArgs : resolution_setter(res)
    \/ \E rate \in TwoBitArgs : conversionRate_setter(rate)
    \/ \E t \in OneBitArgs : timeOut_setter(t)
    \/ \E fq \in TwoBitArgs : faultQueue_setter(fq)
    \/ \E sd \in OneBitArgs : shutDown_setter(sd)
    \/ \E c \in OneBitArgs : compInt_setter(c)
    \/ readConfig
    \/ writeConfig
    \/ T_hyst_getter
    \/ \E t \in TempArgs : T_hyst_setter(t)
    \/ T_os_getter
    \/ \E t \in TempArgs : T_os_setter(t)
    \/ getTemperature

Spec == Init /\ [][Next]_vars

(* ------------------------------ properties --------------------------- *)

SetterNames ==
    {"format", "PEC", "resolution", "conversionRate", "timeOut",
     "faultQueue", "shutDown", "compInt"}

\* the PEC bit (byte1 bit3) of a configuration word
PECBit(c) == Shr(c[2], 3) % 2

\* w and c agree on every bit but the PEC bit
SameButPEC(w, c) ==
    /\ w[1] = c[1]
    /\ w[2] % 8 = c[2] % 8
    /\ Shr(w[2], 4) = Shr(c[2], 4)

\* the step is a call of `name` that returned normally
Returned(name) == lastOp'.name = name /\ lastOp'.out = "ok"

\* C1 (as claimed): a field setter called with a valid value, other than
\* the PEC setter called with 1, leaves both bytes of the active word config
\* unchanged, in every reachable state.
C1_SettersLeaveActive ==
    [][ ( /\ lastOp'.name \in SetterNames
          /\ lastOp'.out = "ok"
          /\ ~(lastOp'.name = "PEC" /\ lastOp'.arg = 1) )
        => config' = config ]_vars

\* C2 (as claimed): when the active PEC bit is 1, the PEC setter called with 0
\* clears only the pending PEC bit; the active PEC bit stays 1 in every step
\* that is not a successful commit or refresh, and a successful commit of a
\* pending word whose PEC bit is 0 leaves the active PEC bit 0.
C2_DisablePECDeferred ==
    [][ /\ (PECBit(config) = 1 /\ Returned("PEC") /\ lastOp'.arg = 0)
            => /\ PECBit(configBuf') = 0
               /\ SameButPEC(configBuf', configBuf)
               /\ config' = config
        /\ (PECBit(config) = 1 /\ ~Returned("writeConfig") /\ ~Returned("readConfig"))
            => PECBit(config') = 1
        /\ (Returned("writeConfig") /\ PECBit(configBuf) = 0)
            => PECBit(config') = 0 ]_vars

\* C3: the PEC setter called with 1 leaves the PEC bit 1 in both the pending
\* and the active word when it returns, performs no bus transaction, and
\* changes no other bit of either word.
C3_EnablePECImmediate ==
    [][ (Returned("PEC") /\ lastOp'.arg = 1)
        => /\ PECBit(configBuf') = 1
           /\ PECBit(config') = 1
           /\ SameButPEC(configBuf', configBuf)
           /\ SameButPEC(config', config)
           /\ bus'.kind = "none" ]_vars

\* C3 witness: the first call after construction enabled PEC; both words
\* carry the PEC bit although nothing was committed.
C3_Witness ==
    /\ nOps = 1
    /\ lastOp.name = "PEC" /\ lastOp.arg = 1 /\ lastOp.out = "ok"
    /\ config = <<0, 72>> /\ configBuf = <<0, 72>> /\ ~aliased

\* C4: a successful writeConfig performs one write of register 1 whose data
\* bytes are the two pending bytes (followed by one CRC byte exactly when PEC
\* is active), and on return config equals configBuf byte for byte while
\* configBuf is what it was before the call.
C4_CommitCopiesPending ==
    [][ Returned("writeConfig")
        => /\ bus'.kind = "write" /\ bus'.reg = 1 /\ bus'.ok
           /\ SubSeq(bus'.data, 1, 2) = configBuf
           /\ Len(bus'.data) = 2 + PECBit(config)
           /\ config' = configBuf'
           /\ configBuf' = configBuf ]_vars

\* C4 witness: a pending word that differs from the power-on word has been
\* committed, after PEC was enabled, so that the frame carries three bytes.
C4_Witness ==
    /\ lastOp.name = "writeConfig" /\ lastOp.out = "ok"
    /\ configBuf # <<0, 64>> /\ config = configBuf
    /\ bus.kind = "write" /\ Len(bus.data) = 3

\* C5: a successful readConfig sets config to the two data bytes read from
\* register 1 and leaves both bytes of configBuf unchanged, in every
\* reachable state.
C5_RefreshLeavesPending ==
    [][ Returned("readConfig")
        => /\ bus'.kind = "read" /\ bus'.reg = 1 /\ bus'.ok
           /\ config' = SubSeq(bus'.data, 1, 2)
           /\ configBuf' = configBuf ]_vars

\* C5 witness: a refresh after a commit (the two words had been one list)
\* replaced the active word and the pending word kept its committed value.
C5_Witness ==
    /\ lastOp.name = "readConfig" /\ lastOp.out = "ok"
    /\ nOps >= 3
    /\ config = <<153, 128>> /\ configBuf = <<2, 64>> /\ ~aliased

\* the operations that read a register
ReadOps == {"readConfig", "getTemperature", "T_hyst.get", "T_os.get"}

\* the CRC a read of `register` expects after the data bytes d
ReadCRC(register, d) == calcCRC(<<2 * addr, register, 2 * addr + 1>> \o d)

\* C6: when the active PEC bit is 1 and the trailing byte delivered by the
\* bus differs from the CRC over [addr<<1, register, (addr<<1)+1] + data,
\* readConfig, getTemperature, T_hyst and T_os raise an I/O error and return
\* no data, and config and configBuf are left unchanged.
C6_CrcMismatchFails ==
    [][ ( /\ lastOp'.name \in ReadOps
          /\ bus'.ok
          /\ PECBit(config) = 1
          /\ bus'.data[Len(bus'.data)]
               # ReadCRC(bus'.reg, SubSeq(bus'.data, 1, Len(bus'.data) - 1)) )
        => /\ lastOp'.out = "IOError"
           /\ lastOp'.ret = <<>>
           /\ bus'.ret = None
           /\ config' = config
           /\ configBuf' = configBuf ]_vars

\* C6 witness: readConfig received the data bytes 0x02 0x48 with the wrong
\* trailing byte 0xFF while PEC was active, and raised.
C6_Witness ==
    /\ lastOp.name = "readConfig" /\ lastOp.out = "IOError"
    /\ PECBit(config) = 1
    /\ bus.ok /\ bus.data = <<2, 72, 255>>

\* the domain of each field
Domain(name) ==
    IF name \in {"resolution", "conversionRate", "faultQueue"} THEN {0, 1, 2, 3} ELSE {0, 1}

\* C7: every field setter called with a value outside its domain raises an
\* error and leaves configBuf and config unchanged.
C7_InvalidValueRejected ==
    [][ (lastOp'.name \in SetterNames /\ lastOp'.arg \notin Domain(lastOp'.name))
        => /\ lastOp'.out = "ValueError"
           /\ configBuf' = configBuf
           /\ config' = config ]_vars

\* C7 witness: the faultQueue setter was called with 4 on a pending word that
\* earlier setters had changed, and raised.
C7_Witness ==
    /\ lastOp.name = "faultQueue" /\ lastOp.arg = 4 /\ lastOp.out = "ValueError"
    /\ configBuf # <<0, 64>>

\* the byte (1 for byte0, 2 for byte1), mask and shift of each field
FieldByte(name) == IF name \in {"shutDown", "compInt", "faultQueue"} THEN 1 ELSE 2

FieldShift(name) ==
    CASE name = "shutDown" -> 0
      [] name = "compInt" -> 1
      [] name = "faultQueue" -> 3
      [] name = "conversionRate" -> 1
      [] name = "PEC" -> 3
      [] name = "timeOut" -> 4
      [] name = "resolution" -> 5
      [] name = "format" -> 7

FieldWidth(name) ==
    IF name \in {"resolution", "conversionRate", "faultQueue"} THEN 2 ELSE 1

\* bit i of byte b
Bit(b, i) == Shr(b, i) % 2

\* the bits of byte b at positions sh .. sh+w-1, as a number
FieldOf(b, sh, w) == Shr(b, sh) % (2 ^ w)

\* C8: every field setter called with a valid value v writes v into exactly
\* its own bit positions of configBuf and leaves every other bit of both
\* bytes of configBuf as it was.
C8_SetterWritesOwnBits ==
    [][ (lastOp'.name \in SetterNames /\ lastOp'.out = "ok")
        => LET f == lastOp'.name
               k == FieldByte(f)
               sh == FieldShift(f)
               w == FieldWidth(f)
           IN  /\ lastOp'.arg \in Domain(f)
               /\ FieldOf(configBuf'[k], sh, w) = lastOp'.arg
               /\ \A i \in 0..7 : (i < sh \/ i >= sh + w)
                      => Bit(configBuf'[k], i) = Bit(configBuf[k], i)
               /\ configBuf'[3 - k] = configBuf[3 - k]
               /\ configBuf'[k] \in 0..255 ]_vars

\* C8 witness: conversionRate was set to 2 on a pending word whose other
\* fields of byte1 (PEC, resolution) were set, and they are still set.
C8_Witness ==
    /\ lastOp.name = "conversionRate" /\ lastOp.arg = 2 /\ lastOp.out = "ok"
    /\ configBuf = <<0, 76>>

\* the data a writing operation hands to write(): the pending word for
\* writeConfig, the encoded threshold for the T_hyst and T_os setters
WriteData(name, arg) == IF name = "writeConfig" THEN configBuf ELSE tempToByte(arg)

\* C9: when the active PEC bit is 1 the bytes handed to the bus are the data
\* followed by exactly one byte, the CRC-8 of [addr<<1, register] + data;
\* when the active PEC bit is 0 they are exactly the data.
C9_WriteFraming ==
    [][ bus'.kind = "write"
        => LET d == WriteData(lastOp'.name, lastOp'.arg)
           IN  IF PECBit(config) = 1
               THEN /\ Len(bus'.data) = Len(d) + 1
                    /\ SubSeq(bus'.data, 1, Len(d)) = d
                    /\ bus'.data[Len(d) + 1] = calcCRC(<<2 * addr, bus'.reg>> \o d)
               ELSE bus'.data = d ]_vars

\* C9 witness: the example of the specification: register 1, data 0x00 0x40,
\* address 0x48, PEC active; the CRC of 0x90 0x01 0x00 0x40 is 0xFA.
C9_Witness ==
    /\ addr = 72
    /\ lastOp.name = "writeConfig"
    /\ bus.kind = "write" /\ bus.reg = 1
    /\ bus.data = <<0, 64, 250>>
    /\ calcCRC(<<144, 1, 0, 64>>) = 250

\* C10: with the active PEC bit 1, read asks the bus for length+1 bytes and,
\* when the last byte is the CRC of [addr<<1, register, (addr<<1)+1] + the
\* first length bytes, returns exactly those bytes; with the bit 0 it asks
\* for length bytes and returns them unmodified.  (length is 2 in every call.)
C10_ReadFraming ==
    [][ (bus'.kind = "read" /\ bus'.ok)
        => IF PECBit(config) = 1
           THEN /\ bus'.len = 3 /\ Len(bus'.data) = 3
                /\ (bus'.data[3] = ReadCRC(bus'.reg, SubSeq(bus'.data, 1, 2))
                      => bus'.ret = Some(SubSeq(bus'.data, 1, 2)))
           ELSE /\ bus'.len = 2
                /\ bus'.ret = Some(bus'.data) ]_vars

\* C10 witness: a read under PEC received three bytes with the right CRC and
\* returned the first two.
C10_Witness ==
    /\ bus.kind = "read" /\ bus.ok /\ bus.len = 3
    /\ bus.data[3] = ReadCRC(bus.reg, SubSeq(bus.data, 1, 2))
    /\ bus.ret = Some(SubSeq(bus.data, 1, 2))
    /\ lastOp.out = "ok"

(* ---------------- direct calls of the codec and of calcCRC -------------- *)

\* tempToByte, byteToTemp and calcCRC are called with their argument list as
\* lastOp.arg and their result as lastOp.ret; a behaviour makes one first
\* call on a drawn input and then calls on what that call left
PureCalled == lastOp.name \in {"tempToByte", "byteToTemp", "calcCRC"}

\* the inputs a first call draws from S: none once a call has been made
Drawn(S) == IF PureCalled THEN {} ELSE S

PureCall(name, args, ret) ==
    /\ lastOp' = Op(name, args, "ok", ret)
    /\ bus' = NoBus
    /\ UNCHANGED <<configBuf, config, aliased, addr, nOps, synced, sent>>

\* largest temperature magnitude handed to tempToByte, in 1/32 degree
\* (the 13-bit range ends below 8192)
MaxTemp == 8200

tempToByte_call(t) ==
    /\ ~PureCalled
    /\ PureCall("tempToByte", <<t>>, tempToByte(t))

\* byteToTemp(*tempToByte(t)): the two bytes of the preceding encode
byteToTemp_call ==
    /\ lastOp.name = "tempToByte"
    /\ PureCall("byteToTemp", lastOp.ret, <<byteToTemp(lastOp.ret[1], lastOp.ret[2])>>)

\* the object as constructed (format 0), or as left by `format = 1` followed
\* by a successful writeConfig (format 1)
InitCodec ==
    \/ Init
    \/ /\ addr \in {72 + part_number : part_number \in PartNumbers}
       /\ configBuf = <<0, 192>>
       /\ config = <<0, 192>>
       /\ aliased = TRUE
       /\ bus = BusWrite(1, <<0, 192>>, TRUE)
       /\ lastOp = Op("writeConfig", 0, "ok", <<>>)
       /\ nOps = 2
       /\ synced = <<0, 192>>
       /\ sent = <<0, 192>>

NextCodec ==
    \/ \E t \in Drawn(-MaxTemp..MaxTemp) : tempToByte_call(t)
    \/ byteToTemp_call

SpecCodec == InitCodec /\ [][NextCodec]_vars

\* the byte lists calcCRC is first called with; flipping bits reaches every
\* list of the same length
CrcSeeds == { <<>>, <<0>>, <<0, 0>> }

\* byte x with bit b flipped
FlipBit(x, b) == IF Shr(x, b) % 2 = 1 THEN x - 2 ^ b ELSE x + 2 ^ b

calcCRC_call(data) ==
    /\ ~PureCalled
    /\ PureCall("calcCRC", data, <<calcCRC(data)>>)

\* calcCRC called again on the preceding input with bit b of byte i flipped
calcCRC_flipped(i, b) ==
    /\ lastOp.name = "calcCRC"
    /\ i \in 1..Len(lastOp.arg)
    /\ LET data == [lastOp.arg EXCEPT ![i] = FlipBit(@, b)]
       IN  PureCall("calcCRC", data, <<calcCRC(data)>>)

NextCRC ==
    \/ \E data \in Drawn(CrcSeeds) : calcCRC_call(data)
    \/ \E i \in 1..2 : \E b \in 0..7 : calcCRC_flipped(i, b)

SpecCRC == Init /\ [][NextCRC]_vars

\* the format bit (byte1 bit7) of a configuration word
FormatBit(c) == Shr(c[2], 7) % 2

\* t (in 1/32 degree) is a multiple of 1/16 degree whose sixteenths fit the
\* 11 bits of format 0 or the 12 bits of format 1
InRange(t, f) ==
    /\ t % 2 = 0
    /\ Abs(t) \div 2 < (IF f = 0 THEN 2 ^ 11 ELSE 2 ^ 12)

\* C11: for format 0 and 1 and every temperature t that is a multiple of
\* 1/16 degree with |t|*16 < 2^11 (format 0) or < 2^12 (format 1),
\* byteToTemp(tempToByte(t)) under the same active format is t again.
C11_TemperatureRoundTrip ==
    [][ ( /\ lastOp.name = "tempToByte"
          /\ lastOp'.name = "byteToTemp"
          /\ lastOp'.arg = lastOp.ret
          /\ FormatBit(config') = FormatBit(config)
          /\ InRange(lastOp.arg[1], FormatBit(config)) )
        => lastOp'.ret = lastOp.arg ]_vars

\* C11 witness: under format 1, -25.5 degrees was encoded as 0x8C 0xC0 and
\* decoded to -25.5 degrees.
C11_Witness ==
    /\ FormatBit(config) = 1
    /\ lastOp.name = "byteToTemp"
    /\ lastOp.arg = <<140, 192>>
    /\ lastOp.ret = <<-816>>

\* C12: tempToByte returns, with p = 3 under format 1 and 4 under format 0
\* and d = |t|*16 truncated toward zero, upper = (d >> (8-p)) mod 128 with
\* bit 7 set iff t < 0, and lower = (d << p) mod 256; the magnitude bits of a
\* negative t are those of |t|.
C12_SignMagnitudeEncoding ==
    lastOp.name = "tempToByte"
    => LET t == lastOp.arg[1]
           p == IF FormatBit(config) = 1 THEN 3 ELSE 4
           d == Abs(t) \div 2
       IN  /\ Len(lastOp.ret) = 2
           /\ lastOp.ret[1] % 128 = (d \div (2 ^ (8 - p))) % 128
           /\ (lastOp.ret[1] >= 128) <=> (t < 0)
           /\ lastOp.ret[1] \in 0..255
           /\ lastOp.ret[2] = (d * (2 ^ p)) % 256

\* C12 witness: the example of the specification: format 0, -25.5 degrees
\* gives upper 0x99 and lower 0x80.
C12_Witness ==
    /\ FormatBit(config) = 0
    /\ lastOp.name = "tempToByte"
    /\ lastOp.arg = <<-816>>
    /\ lastOp.ret = <<153, 128>>

\* x and y are byte lists of one length that differ in exactly one bit
OneBitApart(x, y) ==
    /\ Len(x) = Len(y)
    /\ \E i \in 1..Len(x) :
          /\ \A j \in 1..Len(x) : (j # i) => x[j] = y[j]
          /\ \E b \in 0..7 : y[i] = FlipBit(x[i], b)

\* C13: calcCRC of the empty list is 0, calcCRC folds each byte as
\* table[accumulator XOR byte] from the accumulator 0, and two inputs that
\* differ in exactly one bit have different CRCs (all lists of up to two
\* bytes).
C13_CrcFoldAndBitFlip ==
    /\ [](lastOp.name = "calcCRC"
            => LET data == lastOp.arg
               IN  lastOp.ret =
                     << IF Len(data) = 0 THEN 0
                        ELSE IF Len(data) = 1 THEN table[data[1] + 1]
                        ELSE table[BitXor(table[data[1] + 1], data[2]) + 1] >>)
    /\ [][ ( /\ lastOp.name = "calcCRC"
             /\ lastOp'.name = "calcCRC"
             /\ OneBitApart(lastOp.arg, lastOp'.arg) )
           => lastOp'.ret # lastOp.ret ]_vars

\* C13 witness: calcCRC ran on the two bytes 0x90 0x01, reached by flipping
\* bits of 0x00 0x00, and returned 0xE6.
C13_Witness ==
    /\ lastOp.name = "calcCRC"
    /\ lastOp.arg = <<144, 1>>
    /\ lastOp.ret = <<230>>

(* ------------------- claims on the configuration words ------------------ *)

\* what the getter of field `name` returns
GetterOf(name) ==
    CASE name = "format" -> format
      [] name = "PEC" -> PEC
      [] name = "resolution" -> resolution
      [] name = "conversionRate" -> conversionRate
      [] name = "timeOut" -> timeOut
      [] name = "faultQueue" -> faultQueue
      [] name = "shutDown" -> shutDown
      [] name = "compInt" -> compInt

\* C14: for each of the eight fields and every value v of its domain, after
\* setter(v) returned and the next call, writeConfig, succeeded, the getter
\* of that field returns v (the setter's mask and shift and the getter's
\* shift and mask are inverse on the field).
C14_FieldRoundTrip ==
    [][ \A f \in SetterNames :
          (lastOp.name = f /\ lastOp.out = "ok" /\ Returned("writeConfig"))
          => (GetterOf(f))' = lastOp.arg ]_vars

\* C14 witness: faultQueue was set to 3 on the constructed object and then
\* committed; the getter returns 3.
C14_Witness ==
    /\ nOps = 2
    /\ lastOp.name = "writeConfig" /\ lastOp.out = "ok"
    /\ config = <<24, 64>>
    /\ faultQueue = 3

\* C15 (as claimed): at construction configBuf and config both hold the
\* power-on word 0x00 0x40, so resolution is 3 and format, PEC,
\* conversionRate, timeOut, faultQueue, shutDown and compInt are 0; addr is
\* 0x48 plus the part number and no operation changes it.
C15_ConstructionState_AsClaimed ==
    /\ [](nOps = 0
            => /\ lastOp.name = "__init__"
               /\ configBuf = <<0, 64>> /\ config = <<0, 64>>
               /\ resolution = 3
               /\ \A f \in SetterNames \ {"resolution"} : GetterOf(f) = 0
               /\ addr \in {72 + part_number : part_number \in PartNumbers})
    /\ [][addr' = addr]_vars

\* C15 (amended): as above, but the resolution getter returns 2 at
\* construction: bits 6..5 of 0x40 are 10, which the driver documents as the
\* 10-bit resolution.
C15_ConstructionState ==
    /\ [](nOps = 0
            => /\ lastOp.name = "__init__"
               /\ configBuf = <<0, 64>> /\ config = <<0, 64>>
               /\ resolution = 2
               /\ \A f \in SetterNames \ {"resolution"} : GetterOf(f) = 0
               /\ addr \in {72 + part_number : part_number \in PartNumbers})
    /\ [][addr' = addr]_vars

\* C15 witness: the object as constructed with part number 0: both words
\* 0x00 0x40, address 0x48, resolution getter 2.
C15_Witness ==
    /\ nOps = 0 /\ lastOp.name = "__init__"
    /\ configBuf = <<0, 64>> /\ config = <<0, 64>>
    /\ addr = 72
    /\ resolution = 2

\* C16 (as claimed, taken at a commit that directly follows a call of the PEC
\* setter): a writeConfig whose pending word has a PEC bit different from the
\* PEC bit of the word the device last received is transmitted with the
\* trailing CRC byte of [addr<<1, 1] + the two pending bytes, the active PEC
\* bit being 1 at the moment of the write.
C16_TransitionWriteFramed ==
    [][ ( /\ lastOp.name = "PEC" /\ lastOp.out = "ok"
          /\ lastOp'.name = "writeConfig"
          /\ PECBit(configBuf) # PECBit(sent) )
        => /\ PECBit(config) = 1
           /\ bus'.kind = "write" /\ bus'.reg = 1
           /\ Len(bus'.data) = 3
           /\ SubSeq(bus'.data, 1, 2) = configBuf
           /\ bus'.data[3] = calcCRC(<<2 * addr, 1>> \o configBuf) ]_vars

\* the codec under an explicit format bit f: the two bytes of temperature t
\* (in 1/32 degree) and the temperature of the two bytes u, l
EncodeWith(f, t) ==
    LET p == IF f = 1 THEN 3 ELSE 4
        d == Abs(t) \div 2
        u == (d \div (2 ^ (8 - p))) % 128
    IN  <<IF t < 0 THEN u + 128 ELSE u, (d * (2 ^ p)) % 256>>

DecodeWith(f, u, l) ==
    LET p == IF f = 1 THEN 3 ELSE 4
        m == (u % 128) * (2 ^ (8 - p)) + l \div (2 ^ p)
    IN  IF u >= 128 THEN -(2 * m) ELSE 2 * m

\* C17 (as claimed): every threshold write hands the bus the encoding of its
\* argument, and every successful temperature or threshold read returns the
\* decoding of the bytes read, under the format bit of the word last
\* committed or refreshed; a format set but not committed is not used.
C17_CodecUsesCommittedFormat ==
    [][ /\ (lastOp'.name \in {"T_hyst.set", "T_os.set"})
            => SubSeq(bus'.data, 1, 2) = EncodeWith(FormatBit(synced), lastOp'.arg)
        /\ (lastOp'.name \in {"getTemperature", "T_hyst.get", "T_os.get"}
              /\ lastOp'.out = "ok")
            => lastOp'.ret = <<DecodeWith(FormatBit(synced),
                                          bus'.ret.data[1], bus'.ret.data[2])>> ]_vars

\* the operations on the temperature and threshold registers
TempOps == {"getTemperature", "T_hyst.get", "T_os.get", "T_hyst.set", "T_os.set"}

RegisterOf(name) ==
    CASE name = "getTemperature" -> 0
      [] name \in {"T_hyst.get", "T_hyst.set"} -> 2
      [] name \in {"T_os.get", "T_os.set"} -> 3

\* C18: a read or write of T_hyst (register 2) or T_os (register 3) and
\* getTemperature (register 0) each perform one bus transaction on their
\* register within the call and leave configBuf and config unchanged,
\* whether the call returns or raises.
C18_TempAccessUnbuffered ==
    [][ lastOp'.name \in TempOps
        => /\ bus'.kind = IF lastOp'.name \in {"T_hyst.set", "T_os.set"}
                          THEN "write" ELSE "read"
           /\ bus'.reg = RegisterOf(lastOp'.name)
           /\ configBuf' = configBuf
           /\ config' = config
           /\ aliased' = aliased ]_vars

\* C18 witness: a T_os write failed on the bus while the pending word
\* differed from the active word; both words are still as they were.
C18_Witness ==
    /\ lastOp.name = "T_os.set" /\ lastOp.out = "BusError"
    /\ bus.kind = "write" /\ bus.reg = 3 /\ ~bus.ok
    /\ configBuf = <<0, 192>> /\ config = <<0, 64>>

\* C19 (as claimed): when the bus write of writeConfig fails, the error of
\* the bus reaches the caller, config and configBuf keep the values they had
\* before the call, and config still is the word last successfully written
\* or read (up to a PEC bit forced to 1 by the PEC setter).
C19_FailedCommitKeepsActive ==
    [][ (lastOp'.name = "writeConfig" /\ ~bus'.ok)
        => /\ lastOp'.out = "BusError"
           /\ config' = config
           /\ configBuf' = configBuf
           /\ SameButPEC(config', synced')
           /\ (PECBit(config') # PECBit(synced')) => PECBit(config') = 1 ]_vars

\* byte0 has its reserved bits 2, 5, 6, 7 clear and byte1 its one-shot bit 0
WellFormedWord(w) ==
    /\ w[1] \in 0..255 /\ w[2] \in 0..255
    /\ \A i \in {2, 5, 6, 7} : Bit(w[1], i) = 0
    /\ Bit(w[2], 0) = 0

\* C20: in every reachable state configBuf is exactly two bytes in 0..255
\* with the reserved bits of byte0 and the one-shot bit of byte1 clear; the
\* word handed to the bus by a commit has those bits clear, and the CRC byte
\* appended to that frame is not stored in configBuf.
C20_PendingWellFormed ==
    /\ Len(configBuf) = 2
    /\ WellFormedWord(configBuf)
    /\ (lastOp.name = "writeConfig")
         => /\ Len(bus.data) \in {2, 3}
            /\ WellFormedWord(SubSeq(bus.data, 1, 2))
            /\ configBuf = SubSeq(bus.data, 1, 2)

\* C20 witness: PEC and shutDown were set and committed; the frame carries
\* three bytes and configBuf is the two bytes 0x01 0x48.
C20_Witness ==
    /\ lastOp.name = "writeConfig" /\ lastOp.out = "ok"
    /\ Len(bus.data) = 3
    /\ configBuf = <<1, 72>>

====
